---- MODULE Spec2Model ----
(***************************************************************************)
(* A model of the rust-demo-app HTTP service (src/src/main.rs): the boot   *)
(* sequence of main, the seven GET handlers, the detached fault task that  *)
(* /crash spawns, and the worker threads of the tokio runtime on which     *)
(* the handlers run.                                                       *)
(*                                                                         *)
(* Text (environment names and values, query parameters) is a tuple of     *)
(* one-character strings, so that prefix tests and decimal parsing are     *)
(* computed character by character as the code computes them.              *)
(* Time is in milliseconds.                                                *)
(***************************************************************************)
EXTENDS Integers, Sequences, FiniteSets, TLC

VARIABLES
    pcMain,         \* position of main: "start", "clock_set", "port_parsed", "serving", "exited"
    proc,           \* "running" or "crashed" (abnormal termination of the process)
    exitCause,      \* what terminated the process: "none", "bind", "fault", "handler"
    START_TIME,     \* the static Option<Instant>: [set |-> FALSE] or [set |-> TRUE, t |-> ms]
    now,            \* the monotonic clock, in ms
    environ,        \* the process environment: a function from names to values
    port,           \* the u16 parsed by main (0 before it is parsed)
    listener,       \* the bound socket address: [bound |-> FALSE] or [bound |-> TRUE, ip, port]
    panicStrategy,  \* what a panic does in this build: "unwind" or "abort"
    conns,          \* the connection tasks: conns[c] is the request c carries and how far it got
    faults,         \* the tasks spawned by /crash, in spawn order
    lastResp,       \* the response the last step produced, with its request; NoResp if none
    lastUptimes     \* the uptime_seconds of the last two /healthz or /readyz answers

vars == <<pcMain, proc, exitCause, START_TIME, now, environ, port, listener,
          panicStrategy, conns, faults, lastResp, lastUptimes>>

-----------------------------------------------------------------------------
(* Bounds of the model *)

MaxTime    == 1200  \* the clock stops advancing here
MaxConns   == 3     \* connections open at once
Workers    == 2     \* worker threads of the runtime
MaxFaults  == 1     \* fault tasks spawned in one run
MaxEnvVars == 2     \* variables in an environment given to /info
MaxN       == 47    \* the largest n of the exhaustive /fib run

(* Program constants *)

DefaultPort  == 8080   \* main.rs:277
DefaultN     == 10     \* main.rs:206
FibCap       == 45     \* main.rs:206
CrashDelayMs == 100    \* main.rs:221
U16Max       == 65535  \* the range of `port: u16`, main.rs:274

-----------------------------------------------------------------------------
(* Text *)

Digits == {"0", "1", "2", "3", "4", "5", "6", "7", "8", "9"}

DigitChars == <<"0", "1", "2", "3", "4", "5", "6", "7", "8", "9">>

DigitVal(c) == CHOOSE d \in 0..9 : DigitChars[d + 1] = c

starts_with(k, p) == Len(k) >= Len(p) /\ SubSeq(k, 1, Len(p)) = p

\* the decimal text of a natural number, as format!/to_string write it
RECURSIVE Dec(_)
Dec(i) == IF i < 10 THEN <<DigitChars[i + 1]>>
          ELSE Dec(i \div 10) \o <<DigitChars[(i % 10) + 1]>>

\* a value of the environment that is not valid Unicode
NotUnicode == <<"<not unicode>">>

-----------------------------------------------------------------------------
(* Parsing: str::parse::<u16> (main.rs:276) and the u64 of Query<FibQuery>  *)
(* (main.rs:48-51, 205).  Both are core's from_str_radix with radix 10: an  *)
(* empty string fails, one leading "+" is accepted, "-" is not a digit of   *)
(* an unsigned type, every other character must be a digit, and a value    *)
(* above the type's maximum fails.                                         *)

Err == [ok |-> FALSE]

AllDigits(s) == \A i \in 1..Len(s) : s[i] \in Digits

StripSign(s) == IF s # <<>> /\ Head(s) = "+" THEN Tail(s) ELSE s

\* the checked multiply-and-add loop; -1 is an invalid digit or an overflow
RECURSIVE checked_digits(_, _, _)
checked_digits(s, acc, max) ==
    IF s = <<>> THEN acc
    ELSE IF Head(s) \notin Digits THEN -1
    ELSE LET v == acc * 10 + DigitVal(Head(s))
         IN  IF v > max THEN -1 ELSE checked_digits(Tail(s), v, max)

parse_u16(s) ==
    LET body == StripSign(s)
        v == checked_digits(body, 0, U16Max)
    IN  IF body = <<>> \/ v = -1 THEN Err ELSE [ok |-> TRUE, v |-> v]

\* 2^64 is beyond the integers of the checker: a u64 is held as its decimal
\* digits without leading zeros, and the overflow test compares digits.
U64MaxDigits == <<"1", "8", "4", "4", "6", "7", "4", "4", "0", "7", "3", "7", "0", "9", "5", "5", "1", "6", "1", "5">>

RECURSIVE StripZeros(_)
StripZeros(s) == IF Len(s) > 1 /\ Head(s) = "0" THEN StripZeros(Tail(s)) ELSE s

RECURSIVE DigitsLeq(_, _)
DigitsLeq(a, b) ==
    IF a = <<>> THEN TRUE
    ELSE IF DigitVal(Head(a)) < DigitVal(Head(b)) THEN TRUE
    ELSE IF DigitVal(Head(a)) > DigitVal(Head(b)) THEN FALSE
    ELSE DigitsLeq(Tail(a), Tail(b))

FitsU64(d) == Len(d) < Len(U64MaxDigits)
              \/ (Len(d) = Len(U64MaxDigits) /\ DigitsLeq(d, U64MaxDigits))

parse_u64(s) ==
    LET body == StripSign(s)
    IN  IF body = <<>> \/ ~AllDigits(body) \/ ~FitsU64(StripZeros(body))
        THEN Err
        ELSE [ok |-> TRUE, v |-> StripZeros(body)]

\* u64::min against a small constant k, as an integer
u64_min(d, k) ==
    IF Len(d) > Len(Dec(k)) THEN k
    ELSE LET v == checked_digits(d, 0, 10 * k)
         IN  IF v < k THEN v ELSE k

-----------------------------------------------------------------------------
(* fib, main.rs:200-203 *)

\* fib(n) = fib(n - 1) + fib(n - 2) with base n <= 1.  The pair carries
\* <<fib(n), fib(n - 1)>>, so that the second recursive call reads the value
\* the first one has already computed instead of recomputing it: the values
\* and the sums are those of the double recursion.
RECURSIVE fib_pair(_)
fib_pair(n) ==
    IF n = 0 THEN <<0, 0>>
    ELSE IF n = 1 THEN <<1, 0>>
    ELSE LET p == fib_pair(n - 1) IN <<p[1] + p[2], p[1]>>

\* variant: the base case returns 1 for n = 0
fib_off_by_one(n) == IF n <= 1 THEN 1 ELSE fib_pair(n)[1] + fib_pair(n - 1)[1]

fib(n) == IF n <= 1 THEN n ELSE fib_pair(n - 1)[1] + fib_pair(n - 2)[1]

-----------------------------------------------------------------------------
(* The environment filter of info, main.rs:168-180 *)

K_PORT == <<"P", "O", "R", "T">>
K_HOSTNAME == <<"H", "O", "S", "T", "N", "A", "M", "E">>
K_HOME == <<"H", "O", "M", "E">>
K_PATH == <<"P", "A", "T", "H">>
K_RUST_LOG == <<"R", "U", "S", "T", "_", "L", "O", "G">>
K_APP_VERSION == <<"A", "P", "P", "_", "V", "E", "R", "S", "I", "O", "N">>
P_KUBERNETES == <<"K", "U", "B", "E", "R", "N", "E", "T", "E", "S", "_">>
P_OPENSHIFT == <<"O", "P", "E", "N", "S", "H", "I", "F", "T", "_">>
P_POD == <<"P", "O", "D", "_">>

\* variant: the prefixes are looked for anywhere in the name
info_filter_contains(k) ==
    \/ \E i \in 1..Len(k) : starts_with(SubSeq(k, i, Len(k)), P_KUBERNETES)
    \/ \E i \in 1..Len(k) : starts_with(SubSeq(k, i, Len(k)), P_OPENSHIFT)
    \/ \E i \in 1..Len(k) : starts_with(SubSeq(k, i, Len(k)), P_POD)
    \/ k = K_HOSTNAME
    \/ k = K_HOME
    \/ k = K_PATH
    \/ k = K_RUST_LOG
    \/ k = K_APP_VERSION

info_filter(k) ==
    \/ starts_with(k, P_KUBERNETES)
    \/ starts_with(k, P_OPENSHIFT)
    \/ starts_with(k, P_POD)
    \/ k = K_HOSTNAME
    \/ k = K_HOME
    \/ k = K_PATH
    \/ k = K_RUST_LOG
    \/ k = K_APP_VERSION

\* env::vars() panics while iterating if a name or value is not valid Unicode
vars_panics(env) == \E k \in DOMAIN env : env[k] = NotUnicode

filtered_env(env) ==
    LET keep == {k \in DOMAIN env : info_filter(k)} IN [k \in keep |-> env[k]]

-----------------------------------------------------------------------------
(* uptime_secs, main.rs:53-55 *)

\* variant: the seconds of the clock itself, not those elapsed since the start
uptime_secs_absolute(st, t) == IF st.set THEN t \div 1000 ELSE 0

uptime_secs(st, t) == IF st.set THEN (t - st.t) \div 1000 ELSE 0

-----------------------------------------------------------------------------
(* The port of main, main.rs:274-277 *)

\* env::var is Err when the variable is unset or is not valid Unicode
port_text(env) ==
    IF K_PORT \in DOMAIN env /\ env[K_PORT] # NotUnicode
    THEN env[K_PORT] ELSE Dec(DefaultPort)

\* variant: a value above 65535 wraps instead of failing
parse_port_wrapping(env) ==
    LET body == StripSign(port_text(env))
    IN  IF body = <<>> \/ ~AllDigits(body) \/ Len(body) > 6 THEN DefaultPort
        ELSE checked_digits(body, 0, 1000000) % (U16Max + 1)

parse_port(env) ==
    LET r == parse_u16(port_text(env)) IN IF r.ok THEN r.v ELSE DefaultPort

-----------------------------------------------------------------------------
(* Requests and responses *)

Endpoints == {"/", "/healthz", "/readyz", "/info", "/fib", "/crash", "/metrics"}

\* the query of a request without the parameter n
Absent == <<"<absent>">>

Idle == [st |-> "idle", ep |-> "-", q |-> Absent]

NoResp == [ep |-> "-", q |-> Absent, status |-> 0, body |-> "none"]

Conns == 1..MaxConns

\* worker threads running a handler that has not returned
busy == Cardinality({c \in Conns : conns[c].st = "running"})

alive == proc = "running"

serving == alive /\ pcMain = "serving"

\* a worker thread is free to poll a task
worker_free == busy < Workers

\* the Query<FibQuery> extractor: Ok(None), Ok(Some(n)) or a rejection
extract_n(q) == IF q = Absent THEN [ok |-> TRUE, some |-> FALSE]
                ELSE LET r == parse_u64(q)
                     IN  IF r.ok THEN [ok |-> TRUE, some |-> TRUE, v |-> r.v] ELSE Err

\* variant: the cap is applied one too high
clamped_n_cap_late(q) ==
    LET e == extract_n(q) IN u64_min(IF e.some THEN e.v ELSE Dec(DefaultN), FibCap + 1)

\* params.n.unwrap_or(10).min(45)
clamped_n(q) ==
    LET e == extract_n(q) IN u64_min(IF e.some THEN e.v ELSE Dec(DefaultN), FibCap)

-----------------------------------------------------------------------------
(* main, main.rs:270-293 *)

\* unsafe { START_TIME = Some(Instant::now()); }
MainSetClock ==
    /\ alive /\ pcMain = "start"
    /\ START_TIME' = [set |-> TRUE, t |-> now]
    /\ pcMain' = "clock_set"
    /\ lastResp' = NoResp
    /\ UNCHANGED <<proc, exitCause, now, environ, port, listener, panicStrategy,
                   conns, faults, lastUptimes>>

\* env::var("PORT").unwrap_or_else(..).parse().unwrap_or(8080)
MainParsePort ==
    /\ alive /\ pcMain = "clock_set"
    /\ port' = parse_port(environ)
    /\ pcMain' = "port_parsed"
    /\ lastResp' = NoResp
    /\ UNCHANGED <<proc, exitCause, START_TIME, now, environ, listener, panicStrategy,
                   conns, faults, lastUptimes>>

\* TcpListener::bind(addr).await.unwrap(): the bind succeeds, or it fails
\* (the port is taken or privileged) and the unwrap ends the process
MainBind ==
    /\ alive /\ pcMain = "port_parsed"
    /\ \E ok \in BOOLEAN :
          IF ok
          THEN /\ listener' = [bound |-> TRUE, ip |-> <<0, 0, 0, 0>>, port |-> port]
               /\ pcMain' = "serving"
               /\ UNCHANGED <<proc, exitCause>>
          ELSE /\ pcMain' = "exited"
               /\ proc' = "crashed"
               /\ exitCause' = "bind"
               /\ UNCHANGED listener
    /\ lastResp' = NoResp
    /\ UNCHANGED <<START_TIME, now, environ, port, panicStrategy,
                   conns, faults, lastUptimes>>

-----------------------------------------------------------------------------
(* The environment of the process: time passes, requests arrive *)

Tick(d) ==
    /\ alive
    /\ now + d <= MaxTime
    /\ now' = now + d
    /\ lastResp' = NoResp
    /\ UNCHANGED <<pcMain, proc, exitCause, START_TIME, environ, port, listener,
                   panicStrategy, conns, faults, lastUptimes>>

\* axum::serve accepts a connection carrying GET ep with query q
Arrive(c, ep, q) ==
    /\ serving
    /\ conns[c].st = "idle"
    /\ conns' = [conns EXCEPT ![c] = [st |-> "pending", ep |-> ep, q |-> q]]
    /\ lastResp' = NoResp
    /\ UNCHANGED <<pcMain, proc, exitCause, START_TIME, now, environ, port, listener,
                   panicStrategy, faults, lastUptimes>>

-----------------------------------------------------------------------------
(* Handlers.  A handler without an await point runs on one worker thread   *)
(* from the extraction of its arguments to its return.  A response holds   *)
(* the fields computed from the state above; the fields read from the      *)
(* operating system at call time (hostname, uid, gid, wall-clock           *)
(* timestamp, system snapshot, measured duration) are left out.            *)

\* the handler of connection c returns r: the response is produced
Respond(c, r) ==
    /\ conns' = [conns EXCEPT ![c] = Idle]
    /\ lastResp' = [ep |-> conns[c].ep, q |-> conns[c].q] @@ r

\* a panic inside the handler of connection c
HandlerPanic(c) ==
    IF panicStrategy = "abort"
    THEN /\ proc' = "crashed"
         /\ exitCause' = "handler"
         /\ lastResp' = NoResp
         /\ UNCHANGED conns
    ELSE /\ Respond(c, [status |-> 0, body |-> "dropped"])
         /\ UNCHANGED <<proc, exitCause>>

CanServe(c, ep) == serving /\ conns[c].st = "pending" /\ conns[c].ep = ep /\ worker_free

landing_page(c) ==
    /\ CanServe(c, "/")
    /\ Respond(c, [status |-> 200, body |-> "html",
                   uptime |-> uptime_secs(START_TIME, now)])
    /\ UNCHANGED <<pcMain, proc, exitCause, START_TIME, now, environ, port, listener,
                   panicStrategy, faults, lastUptimes>>

Health(c, ep, status) ==
    /\ CanServe(c, ep)
    /\ LET u == uptime_secs(START_TIME, now)
       IN  /\ Respond(c, [status |-> 200, body |-> "health", health |-> status,
                          uptime_seconds |-> u])
           /\ lastUptimes' = <<lastUptimes[2], u>>
    /\ UNCHANGED <<pcMain, proc, exitCause, START_TIME, now, environ, port, listener,
                   panicStrategy, faults>>

healthz(c) == Health(c, "/healthz", "ok")

readyz(c) == Health(c, "/readyz", "ready")

info(c) ==
    /\ CanServe(c, "/info")
    /\ IF vars_panics(environ)
       THEN HandlerPanic(c)
       ELSE /\ Respond(c, [status |-> 200, body |-> "info",
                           environment |-> filtered_env(environ)])
            /\ UNCHANGED <<proc, exitCause>>
    /\ UNCHANGED <<pcMain, START_TIME, now, environ, port, listener,
                   panicStrategy, faults, lastUptimes>>

metrics(c) ==
    /\ CanServe(c, "/metrics")
    /\ Respond(c, [status |-> 200, body |-> "metrics",
                   uptime |-> uptime_secs(START_TIME, now)])
    /\ UNCHANGED <<pcMain, proc, exitCause, START_TIME, now, environ, port, listener,
                   panicStrategy, faults, lastUptimes>>

\* Query<FibQuery> fails to deserialize n: axum answers 400 and fibonacci
\* is not called
FibReject(c) ==
    /\ CanServe(c, "/fib")
    /\ ~extract_n(conns[c].q).ok
    /\ Respond(c, [status |-> 400, body |-> "rejection"])
    /\ UNCHANGED <<pcMain, proc, exitCause, START_TIME, now, environ, port, listener,
                   panicStrategy, faults, lastUptimes>>

\* fibonacci is entered: the worker thread computes fib(n) synchronously
FibStart(c) ==
    /\ CanServe(c, "/fib")
    /\ extract_n(conns[c].q).ok
    /\ conns' = [conns EXCEPT ![c].st = "running"]
    /\ lastResp' = NoResp
    /\ UNCHANGED <<pcMain, proc, exitCause, START_TIME, now, environ, port, listener,
                   panicStrategy, faults, lastUptimes>>

\* fib(n) has returned: Json(FibResult { n, result, computation_ms })
FibFinish(c) ==
    /\ alive
    /\ conns[c].st = "running" /\ conns[c].ep = "/fib"
    /\ LET n == clamped_n(conns[c].q)
       IN  Respond(c, [status |-> 200, body |-> "fib", n |-> n, result |-> fib(n)])
    /\ UNCHANGED <<pcMain, proc, exitCause, START_TIME, now, environ, port, listener,
                   panicStrategy, faults, lastUptimes>>

\* crash: tokio::spawn(async { sleep(100 ms).await; panic!(..) })
CrashSpawn(c) ==
    /\ CanServe(c, "/crash")
    /\ Len(faults) < MaxFaults
    /\ conns' = [conns EXCEPT ![c].st = "running"]
    /\ faults' = Append(faults, [st |-> "spawned", deadline |-> 0, conn |-> c,
                                 answered |-> FALSE])
    /\ lastResp' = NoResp
    /\ UNCHANGED <<pcMain, proc, exitCause, START_TIME, now, environ, port, listener,
                   panicStrategy, lastUptimes>>

\* crash returns (StatusCode::OK, "Crashing in 100ms...")
CrashRespond(c) ==
    /\ alive
    /\ conns[c].st = "running" /\ conns[c].ep = "/crash"
    /\ Respond(c, [status |-> 200, body |-> "warning"])
    /\ faults' = [i \in DOMAIN faults |->
                    IF faults[i].conn = c THEN [faults[i] EXCEPT !.answered = TRUE]
                    ELSE faults[i]]
    /\ UNCHANGED <<pcMain, proc, exitCause, START_TIME, now, environ, port, listener,
                   panicStrategy, lastUptimes>>

-----------------------------------------------------------------------------
(* The fault task of crash, main.rs:220-223 *)

\* tokio::time::sleep(Duration::from_millis(100)): the deadline of the timer
sleep_deadline(t) == t + CrashDelayMs

\* a worker polls the task for the first time: the sleep is created
FaultPoll(i) ==
    /\ alive /\ worker_free
    /\ faults[i].st = "spawned"
    /\ faults' = [faults EXCEPT ![i].st = "sleeping", ![i].deadline = sleep_deadline(now)]
    /\ lastResp' = NoResp
    /\ UNCHANGED <<pcMain, proc, exitCause, START_TIME, now, environ, port, listener,
                   panicStrategy, conns, lastUptimes>>

\* the timer has elapsed and a worker polls the task again: panic!
\* With panic = "unwind" (the default) the runtime catches the panic of a
\* spawned task and only that task ends; with panic = "abort" the process
\* aborts.
FaultFire(i) ==
    /\ alive /\ worker_free
    /\ faults[i].st = "sleeping"
    /\ now >= faults[i].deadline
    /\ faults' = [faults EXCEPT ![i].st = "panicked"]
    /\ IF panicStrategy = "abort"
       THEN proc' = "crashed" /\ exitCause' = "fault"
       ELSE UNCHANGED <<proc, exitCause>>
    /\ lastResp' = NoResp
    /\ UNCHANGED <<pcMain, START_TIME, now, environ, port, listener,
                   panicStrategy, conns, lastUptimes>>

-----------------------------------------------------------------------------
(* Inputs *)

TickSteps == {100, 1000}

CoarseSteps == {1000}

\* values of PORT
PortTexts == {
    <<>>,
    <<"8", "0", "8", "0">>,
    <<"8", "0">>,
    <<"0">>,
    <<"6", "5", "5", "3", "5">>,
    <<"6", "5", "5", "3", "6">>,
    <<"9", "9", "9", "9", "9">>,
    <<"-", "1">>,
    <<"a", "b", "c">>,
    <<"8", "0", "a">>,
    <<"+", "4", "4", "3">>,
    <<" ", "8", "0">>,
    <<"0", "0", "8", "0">>,
    <<"3", "0", "0", "0">>,
    <<"7", "0", "0", "0", "0">>,
    <<"1", "e", "3">>,
    NotUnicode}

\* names of environment variables, inside and outside the whitelist
EnvNames == {
    <<"K", "U", "B", "E", "R", "N", "E", "T", "E", "S", "_", "P", "O", "R", "T">>,
    <<"O", "P", "E", "N", "S", "H", "I", "F", "T", "_", "B", "U", "I", "L", "D">>,
    <<"P", "O", "D", "_", "I", "P">>,
    <<"H", "O", "S", "T", "N", "A", "M", "E">>,
    <<"H", "O", "M", "E">>,
    <<"P", "A", "T", "H">>,
    <<"R", "U", "S", "T", "_", "L", "O", "G">>,
    <<"A", "P", "P", "_", "V", "E", "R", "S", "I", "O", "N">>,
    <<"D", "B", "_", "P", "A", "S", "S", "W", "O", "R", "D">>,
    <<"P", "O", "D">>,
    <<"H", "O", "M", "E", "P", "A", "G", "E">>,
    <<"M", "Y", "_", "P", "O", "D", "_", "I", "P">>,
    <<"K", "U", "B", "E", "R", "N", "E", "T", "E", "S">>,
    <<"p", "o", "d", "_", "i", "p">>,
    <<"P", "O", "R", "T">>}

EnvValues == {<<"x">>, <<"s", "3", "c", "r", "3", "t">>, NotUnicode}

\* every environment of at most MaxEnvVars variables
InfoEnvs ==
    UNION {[S -> EnvValues] :
             S \in {T \in SUBSET EnvNames : Cardinality(T) <= MaxEnvVars}}

\* PORT unset, or set to one of PortTexts
PortEnvs == {<<>>} \cup {[k \in {K_PORT} |-> t] : t \in PortTexts}

HomeEnv == [k \in {K_HOME, <<"D", "B", "_", "P", "A", "S", "S", "W", "O", "R", "D">>} |-> IF k = K_HOME THEN <<"/">> ELSE <<"s", "3", "c", "r", "3", "t">>]

BrokenEnv == [k \in {K_PORT, <<"P", "O", "D", "_", "I", "P">>} |-> IF k = K_PORT THEN <<"3", "0", "0", "0">> ELSE NotUnicode]

\* values of the query parameter n that are no plain decimal of 0..MaxN
OddQueries == {
    <<>>,
    <<"a", "b", "c">>,
    <<"-", "1">>,
    <<"1", "x">>,
    <<"0", "0", "7">>,
    <<"1", "0", "0">>,
    <<"+", "5">>,
    <<"4", ".", "5">>,
    <<"1", "8", "4", "4", "6", "7", "4", "4", "0", "7", "3", "7", "0", "9", "5", "5", "1", "6", "1", "5">>,
    <<"1", "8", "4", "4", "6", "7", "4", "4", "0", "7", "3", "7", "0", "9", "5", "5", "1", "6", "1", "6">>,
    <<"9", "9", "9", "9", "9", "9", "9", "9", "9", "9", "9", "9", "9", "9", "9", "9", "9", "9", "9", "9">>}

AllQueries == {Absent} \cup {Dec(i) : i \in 0..MaxN} \cup OddQueries

FewQueries == {<<"4", "6">>, <<"a", "b", "c">>}

-----------------------------------------------------------------------------
(* Specifications *)

InitWith(envs, strategies) ==
    /\ pcMain = "start"
    /\ proc = "running"
    /\ exitCause = "none"
    /\ START_TIME = [set |-> FALSE]
    /\ now = 0
    /\ environ \in envs
    /\ port = 0
    /\ listener = [bound |-> FALSE]
    /\ panicStrategy \in strategies
    /\ conns = [c \in Conns |-> Idle]
    /\ faults = <<>>
    /\ lastResp = NoResp
    /\ lastUptimes = <<-1, -1>>

\* the state in which main awaits axum::serve, booted at time 0 without PORT
InitServing(strategies) ==
    /\ pcMain = "serving"
    /\ proc = "running"
    /\ exitCause = "none"
    /\ START_TIME = [set |-> TRUE, t |-> 0]
    /\ now = 0
    /\ environ = HomeEnv
    /\ port = parse_port(HomeEnv)
    /\ listener = [bound |-> TRUE, ip |-> <<0, 0, 0, 0>>, port |-> parse_port(HomeEnv)]
    /\ panicStrategy \in strategies
    /\ conns = [c \in Conns |-> Idle]
    /\ faults = <<>>
    /\ lastResp = NoResp
    /\ lastUptimes = <<-1, -1>>

Strategies == {"unwind", "abort"}

\* Every operation of the service, on every connection, with a coarse clock.
Init == InitWith({HomeEnv, BrokenEnv}, Strategies)

Next ==
    \/ MainSetClock
    \/ MainParsePort
    \/ MainBind
    \/ \E d \in CoarseSteps : Tick(d)
    \/ \E c \in Conns, ep \in Endpoints \ {"/fib"} : Arrive(c, ep, Absent)
    \/ \E c \in Conns, q \in FewQueries : Arrive(c, "/fib", q)
    \/ \E c \in Conns : landing_page(c)
    \/ \E c \in Conns : healthz(c)
    \/ \E c \in Conns : readyz(c)
    \/ \E c \in Conns : info(c)
    \/ \E c \in Conns : metrics(c)
    \/ \E c \in Conns : FibReject(c)
    \/ \E c \in Conns : FibStart(c)
    \/ \E c \in Conns : FibFinish(c)
    \/ \E c \in Conns : CrashSpawn(c)
    \/ \E c \in Conns : CrashRespond(c)
    \/ \E i \in DOMAIN faults : FaultPoll(i)
    \/ \E i \in DOMAIN faults : FaultFire(i)

Spec == Init /\ [][Next]_vars

\* The boot of main and the handlers that read the clock, with a fine clock.
InitClock == InitWith({HomeEnv}, {"unwind"})

NextClock ==
    \/ MainSetClock
    \/ MainParsePort
    \/ MainBind
    \/ \E d \in TickSteps : Tick(d)
    \/ \E c \in Conns, ep \in {"/", "/healthz", "/readyz", "/metrics"} : Arrive(c, ep, Absent)
    \/ \E c \in Conns : landing_page(c)
    \/ \E c \in Conns : healthz(c)
    \/ \E c \in Conns : readyz(c)
    \/ \E c \in Conns : metrics(c)

SpecClock == InitClock /\ [][NextClock]_vars

\* /crash and the liveness probe under both panic strategies, with a fine clock.
InitCrash == InitServing(Strategies)

NextCrash ==
    \/ \E d \in TickSteps : Tick(d)
    \/ \E c \in Conns, ep \in {"/crash", "/healthz"} : Arrive(c, ep, Absent)
    \/ \E c \in Conns : healthz(c)
    \/ \E c \in Conns : CrashSpawn(c)
    \/ \E c \in Conns : CrashRespond(c)
    \/ \E i \in DOMAIN faults : FaultPoll(i)
    \/ \E i \in DOMAIN faults : FaultFire(i)

SpecCrash == InitCrash /\ [][NextCrash]_vars

\* /fib under load, with the liveness probe.
InitLoad == InitServing({"unwind"})

NextLoad ==
    \/ \E d \in CoarseSteps : Tick(d)
    \/ \E c \in Conns : Arrive(c, "/healthz", Absent)
    \/ \E c \in Conns, q \in FewQueries : Arrive(c, "/fib", q)
    \/ \E c \in Conns : healthz(c)
    \/ \E c \in Conns : FibReject(c)
    \/ \E c \in Conns : FibStart(c)
    \/ \E c \in Conns : FibFinish(c)

SpecLoad == InitLoad /\ [][NextLoad]_vars

\* /fib on one connection, for every query.
InitFib == InitServing({"unwind"})

NextFib ==
    \/ \E q \in AllQueries : Arrive(1, "/fib", q)
    \/ FibReject(1)
    \/ FibStart(1)
    \/ FibFinish(1)

SpecFib == InitFib /\ [][NextFib]_vars

\* The boot of main and /info, for every environment.
InitEnv == InitWith(InfoEnvs \cup PortEnvs, Strategies)

NextEnv ==
    \/ MainSetClock
    \/ MainParsePort
    \/ MainBind
    \/ Arrive(1, "/info", Absent)
    \/ info(1)

SpecEnv == InitEnv /\ [][NextEnv]_vars

-----------------------------------------------------------------------------
(* Reference definitions the properties are stated against *)

\* the Fibonacci numbers F(0) = 0, F(1) = 1, F(k) = F(k-1) + F(k-2), by iteration
RECURSIVE FibIter(_, _, _)
FibIter(a, b, k) == IF k = 0 THEN a ELSE FibIter(b, a + b, k - 1)

F(k) == FibIter(0, 1, k)

\* the documented whitelist of /info
HasPrefix(k, p) == Len(k) >= Len(p) /\ \A i \in 1..Len(p) : k[i] = p[i]

Whitelisted(k) ==
    \/ \E p \in {P_KUBERNETES, P_OPENSHIFT, P_POD} : HasPrefix(k, p)
    \/ k \in {K_HOSTNAME, K_HOME, K_PATH, K_RUST_LOG, K_APP_VERSION}

\* the decimal value of a string of digits, from its last digit
RECURSIVE DecimalValue(_)
DecimalValue(s) ==
    IF s = <<>> THEN 0
    ELSE DecimalValue(SubSeq(s, 1, Len(s) - 1)) * 10 + DigitVal(s[Len(s)])

\* t is the text of a 16-bit unsigned integer
IsU16Text(t) ==
    LET d == IF Len(t) > 0 /\ t[1] = "+" THEN SubSeq(t, 2, Len(t)) ELSE t
    IN  /\ Len(d) > 0
        /\ \A i \in 1..Len(d) : d[i] \in Digits
        /\ Len(d) <= 8
        /\ DecimalValue(d) <= 65535

U16Value(t) == DecimalValue(IF t[1] = "+" THEN SubSeq(t, 2, Len(t)) ELSE t)

ExpectedPort(env) ==
    IF K_PORT \in DOMAIN env /\ env[K_PORT] # NotUnicode /\ IsU16Text(env[K_PORT])
    THEN U16Value(env[K_PORT]) ELSE 8080

PortIs(t) == K_PORT \in DOMAIN environ /\ environ[K_PORT] = t

-----------------------------------------------------------------------------
(* Properties *)

\* C1: once the fault task of /crash has run past its sleep and panicked, the
\* whole process has terminated abnormally, not only the task.
C1_FaultEndsProcess ==
    \A i \in DOMAIN faults : faults[i].st = "panicked" => proc = "crashed"

\* C2: in every execution the handler of /crash has returned its response
\* before the fault it spawned fires.
C2_ResponseBeforeFault ==
    \A i \in DOMAIN faults : faults[i].st = "panicked" => faults[i].answered

\* C3: for every n in 0..45, /fib?n=<n> answers result = F(n) (0 for 0, 1 for
\* 1, 55 for 10), and no sum of the recursion leaves the integer range.
C3_FibIsFibonacci ==
    \A k \in 0..FibCap :
        (lastResp.body = "fib" /\ lastResp.q = Dec(k)) =>
            /\ lastResp.result = F(k)
            /\ k = 0 => lastResp.result = 0
            /\ k = 1 => lastResp.result = 1
            /\ k = 10 => lastResp.result = 55
            /\ \A j \in 2..k : fib(j - 1) + fib(j - 2) <= 2147483647

C3_Witness ==
    lastResp.body = "fib" /\ lastResp.q = Dec(FibCap) /\ lastResp.result = 1134903170

\* C4: the n of a /fib answer is at most 45: a requested n above 45 is answered
\* as 45, one of at most 45 unchanged, an absent one as 10 with result 55, and
\* the result is the Fibonacci number of the answered n.
C4_ClampedN ==
    lastResp.body = "fib" =>
        /\ lastResp.n <= 45
        /\ lastResp.result = F(lastResp.n)
        /\ \A k \in 0..MaxN : lastResp.q = Dec(k) =>
               lastResp.n = (IF k > 45 THEN 45 ELSE k)
        /\ lastResp.q \in {<<"1", "0", "0">>, U64MaxDigits} => lastResp.n = 45
        /\ lastResp.q = Absent => (lastResp.n = 10 /\ lastResp.result = 55)

C4_Witness ==
    lastResp.body = "fib" /\ lastResp.q = Dec(FibCap + 1) /\ lastResp.n = FibCap

\* C5: /fib never answers a client error: every value of n, malformed ones
\* included, is normalized and answered 200.
C5_NeverClientError ==
    lastResp.ep = "/fib" => lastResp.status = 200

\* C6: the environment of an /info answer holds exactly the whitelisted
\* variables of the process environment, each with its value.
C6_OnlyWhitelisted ==
    lastResp.body = "info" =>
        /\ DOMAIN lastResp.environment = {k \in DOMAIN environ : Whitelisted(k)}
        /\ \A k \in DOMAIN lastResp.environment : lastResp.environment[k] = environ[k]

C6_Witness ==
    /\ lastResp.body = "info"
    /\ DOMAIN environ = {<<"D", "B", "_", "P", "A", "S", "S", "W", "O", "R", "D">>, K_HOME}
    /\ DOMAIN lastResp.environment = {K_HOME}

\* C7: the uptime_seconds of successive /healthz and /readyz answers never
\* decrease, an answer given less than a second after the start reports 0, and
\* a request is only ever served with the start timestamp set.
C7_UptimeMonotonic ==
    /\ lastUptimes[1] <= lastUptimes[2]
    /\ lastResp.body = "health" =>
          /\ START_TIME.set
          /\ now - START_TIME.t < 1000 => lastResp.uptime_seconds = 0
    /\ (lastResp # NoResp \/ \E c \in Conns : conns[c].st # "idle") => START_TIME.set

C7_Witness ==
    /\ lastUptimes = <<0, 1>>
    /\ START_TIME.t > 0

\* C8: once the server accepts requests only /crash ends the process, and every
\* call to /, /healthz, /readyz, /info, /fib and /metrics is answered 200 and
\* leaves the start timestamp as it was set.
C8_OnlyCrashEndsProcess ==
    /\ (listener.bound /\ proc = "crashed") => exitCause = "fault"
    /\ lastResp.ep \in Endpoints \ {"/crash"} => lastResp.status = 200
    /\ listener.bound => START_TIME.set

\* C9: while /fib computations are in progress, a request to another endpoint
\* is served without waiting for one of them to finish.
C9_ProbeNotBlocked ==
    \A c \in Conns :
        (conns[c].st = "pending" /\ conns[c].ep = "/healthz"
            /\ \E d \in Conns : conns[d].st = "running" /\ conns[d].ep = "/fib")
        => ENABLED healthz(c)

\* C10: the port is the value of PORT when PORT is the text of a 16-bit
\* unsigned integer and 8080 otherwise, a parse failure does not end the
\* process, and the listener is bound to 0.0.0.0 on that port.
C10_PortFallback ==
    /\ pcMain \in {"port_parsed", "serving"} =>
          /\ port = ExpectedPort(environ)
          /\ K_PORT \notin DOMAIN environ => port = 8080
          /\ (PortIs(<<>>) \/ PortIs(<<"a", "b", "c">>) \/ PortIs(<<"-", "1">>) \/ PortIs(<<"6", "5", "5", "3", "6">>)) => port = 8080
          /\ PortIs(<<"6", "5", "5", "3", "5">>) => port = 65535
          /\ PortIs(<<"3", "0", "0", "0">>) => port = 3000
    /\ pcMain = "port_parsed" => proc = "running"
    /\ listener.bound => (listener.ip = <<0, 0, 0, 0>> /\ listener.port = ExpectedPort(environ))

C10_Witness ==
    /\ pcMain = "serving"
    /\ PortIs(<<"6", "5", "5", "3", "6">>)
    /\ listener.bound /\ listener.port = 8080

====
